---------------------------- MODULE Spec2Model ----------------------------
(***************************************************************************)
(* NodeSeek keyword monitor: the rule store (storage.py), the matching     *)
(* engine (monitor.py) and the recurring poll job with its delivery,       *)
(* flood-control and health-alert logic (bot.py).                          *)
(*                                                                         *)
(* Texts (keywords, titles) are sequences of one-character strings, so     *)
(* that case folding and substring search are computed, not assumed.       *)
(* Time is counted in whole days; a poll cycle is far shorter than a day   *)
(* (30 s fetch timeout, 1 s + 2 s back-off, 0.3 s pacing), so the clock    *)
(* advances only between cycles.                                           *)
(***************************************************************************)
EXTENDS Integers, Sequences, FiniteSets, TLC

(***************************************************************************)
(* Bounds of the model.                                                    *)
(***************************************************************************)
MaxPosts == 3          \* post ids 100 .. 99 + MaxPosts exist on the forum
MaxBurst == 5          \* the same, where the clock stands still
MaxRules == 3          \* the rule store holds at most this many rows
MaxCap   == 2          \* MAX_NOTIFICATIONS_PER_POLL is drawn from 0 .. MaxCap
MaxFail  == 4          \* the failure counter is not driven beyond this
MaxOutage == 1         \* the same, where the alert is not the subject
MaxClock == 8          \* last day of the clock
MaxOps   == 2          \* posts on the forum while commands interleave
MaxLongClock == 32     \* last day of the clock where it runs for a month

(***************************************************************************)
(* Program constants.                                                      *)
(***************************************************************************)
ALLOWED_USER_ID          == 1
RSS_FAIL_ALERT_THRESHOLD == 3
max_retries              == 3
KEEP_DAYS_SEEN           == 7
KEEP_DAYS_NOTIFICATIONS  == 30
HISTORY_LIMIT            == 10

\* the clock advances in steps of half a retention window
TickDays == (KEEP_DAYS_SEEN + 1) \div 2

NULL == "NULL"

(***************************************************************************)
(* Text.                                                                   *)
(***************************************************************************)
UpperChars == <<"D", "M", "V", "P">>
LowerChars == <<"d", "m", "v", "p">>

\* str.lower() on one character
LowerChar(c) ==
    IF \E i \in 1..Len(UpperChars) : UpperChars[i] = c
    THEN LowerChars[CHOOSE i \in 1..Len(UpperChars) : UpperChars[i] = c]
    ELSE c

\* str.lower()
Lower(s) == [i \in 1..Len(s) |-> LowerChar(s[i])]

\* SQLite COLLATE NOCASE: the two texts are equal after folding the ASCII
\* upper-case letters
NoCaseEq(a, b) ==
    /\ Len(a) = Len(b)
    /\ \A i \in 1..Len(a) : LowerChar(a[i]) = LowerChar(b[i])

\* Python's `needle in hay`
Contains(hay, needle) ==
    \E i \in 1..(Len(hay) - Len(needle) + 1) :
        SubSeq(hay, i, i + Len(needle) - 1) = needle

\* re.compile succeeds: the modelled patterns are literals, except that an
\* unbalanced parenthesis makes the pattern invalid
ValidRegex(pattern) == \A i \in 1..Len(pattern) : pattern[i] # "("

\* the pattern makes the regex engine raise an exception that is not
\* re.error: a brace stands for a repetition count beyond the engine's limit
\* (a{99999999999} raises OverflowError)
RegexOverflows(pattern) == \E i \in 1..Len(pattern) : pattern[i] = "{"

\* monitor.matches lets an exception escape: it catches re.error only
MatchesRaises(title, keyword, match_mode) ==
    match_mode = "regex" /\ RegexOverflows(keyword)

\* monitor.matches
Matches(title, keyword, match_mode) ==
    IF match_mode = "regex"
    THEN IF ValidRegex(keyword) /\ ~RegexOverflows(keyword)
         THEN Contains(Lower(title), Lower(keyword))
         ELSE FALSE
    ELSE Contains(Lower(title), Lower(keyword))

(***************************************************************************)
(* The forum: posts and categories.                                        *)
(***************************************************************************)
CATEGORIES == {"trade", "daily"}

\* the first n posts of the forum, with ids from 100
Posts(n) == 100 .. (99 + n)

PostIds == Posts(MaxPosts)

\* 100 "xdm" in daily, 101 "DMvp" in trade, 102 "un" in daily, 103 "xdm" in
\* trade, 104 "DMvp" in daily, ...
PostTitle(p) ==
    CASE p % 3 = 2 -> <<"D", "M", "v", "p">>
      [] p % 3 = 0 -> <<"u", "n">>
      [] OTHER     -> <<"x", "d", "m">>

PostCategory(p) == IF p % 2 = 1 THEN "trade" ELSE "daily"

\* texts an operator may register
KeywordTexts == {<<"D", "M">>, <<"d", "m">>, <<"v", "p">>}

MatchModes == {"substring", "regex"}

Users == {ALLOWED_USER_ID, ALLOWED_USER_ID + 1}

VARIABLES
    keywords,        \* table keywords, in created_at order
    seen_posts,      \* table seen_posts: set of [post_id, seen_at]
    notifications,   \* table notifications, in insertion order
    settings,        \* table settings: function key -> value
    rss_fail_count,  \* bot._rss_fail_count
    cap,             \* config.MAX_NOTIFICATIONS_PER_POLL
    now,             \* datetime.utcnow(), in days
    feed,            \* post ids the remote feed currently serves
    pc,              \* where the poll job is suspended
    kws,             \* poll_rss: keywords (the enabled rules, snapshot)
    to_fetch,        \* poll_rss: scopes still to request
    entries,         \* poll_rss: entries (post ids fetched so far)
    to_send,         \* poll_rss: to_send
    overflow,        \* poll_rss: overflow
    idx,             \* poll_rss: position in to_send (1-based)
    attempt,         \* _send_with_retry: attempt
    ret,             \* what the last operator command did
    cyc,             \* observation of the current / last poll cycle
    health           \* observation of the current outage: failing cycles
                     \* and alerts since the last successful fetch

db    == <<keywords, seen_posts, notifications, settings>>
local == <<kws, to_fetch, entries, to_send, overflow, idx, attempt>>
vars  == <<keywords, seen_posts, notifications, settings, rss_fail_count, cap,
           now, feed, pc, kws, to_fetch, entries, to_send, overflow, idx,
           attempt, ret, cyc, health>>

(***************************************************************************)
(* storage.py: keywords.                                                   *)
(***************************************************************************)
ExistingRows_CaseSensitive(keyword, category) ==
    {i \in 1..Len(keywords) :
        /\ keywords[i].keyword = keyword
        /\ keywords[i].category = category}

\* the duplicate check of add_keyword: a row with the keyword (NOCASE) and
\* the category (IS / =)
ExistingRows(keyword, category) ==
    {i \in 1..Len(keywords) :
        /\ NoCaseEq(keywords[i].keyword, keyword)
        /\ keywords[i].category = category}

\* add_keyword: the return value
add_keyword_result(keyword, category) == ExistingRows(keyword, category) = {}

\* add_keyword: the table afterwards
add_keyword_table(keyword, category, match_mode) ==
    IF ExistingRows(keyword, category) # {}
    THEN keywords
    ELSE Append(keywords, [keyword |-> keyword, category |-> category,
                           match_mode |-> match_mode, enabled |-> TRUE])

\* rows matched by WHERE keyword = ? COLLATE NOCASE
RowsOf(keyword) ==
    {i \in 1..Len(keywords) : NoCaseEq(keywords[i].keyword, keyword)}

\* remove_keyword: cursor.rowcount
remove_keyword_result(keyword) == Cardinality(RowsOf(keyword))

remove_keyword_table_CaseSensitive(keyword) ==
    SelectSeq(keywords, LAMBDA r : r.keyword # keyword)

\* remove_keyword: the table afterwards
remove_keyword_table(keyword) ==
    SelectSeq(keywords, LAMBDA r : ~NoCaseEq(r.keyword, keyword))

\* set_keyword_enabled: cursor.rowcount
set_keyword_enabled_result(keyword) == Cardinality(RowsOf(keyword))

set_keyword_enabled_table_CaseSensitive(keyword, enabled) ==
    [i \in 1..Len(keywords) |->
        IF keywords[i].keyword = keyword
        THEN [keywords[i] EXCEPT !.enabled = enabled]
        ELSE keywords[i]]

\* set_keyword_enabled: the table afterwards
set_keyword_enabled_table(keyword, enabled) ==
    [i \in 1..Len(keywords) |->
        IF NoCaseEq(keywords[i].keyword, keyword)
        THEN [keywords[i] EXCEPT !.enabled = enabled]
        ELSE keywords[i]]

\* list_keywords
list_keywords == keywords


(***************************************************************************)
(* storage.py: seen posts, notifications, settings.                        *)
(***************************************************************************)
SeenIds(tbl) == {r.post_id : r \in tbl}

is_seen_Never(tbl, post_id) == FALSE

\* is_seen, on a given state of the table
is_seen(tbl, post_id) == post_id \in SeenIds(tbl)

mark_seen_Skip(tbl, post_id) == tbl

\* mark_seen: INSERT OR IGNORE
mark_seen(tbl, post_id) ==
    IF post_id \in SeenIds(tbl)
    THEN tbl
    ELSE tbl \cup {[post_id |-> post_id, seen_at |-> now]}

mark_many_seen_First(tbl, post_ids) ==
    tbl \cup {[post_id |-> p, seen_at |-> now] :
                 p \in {q \in post_ids \ SeenIds(tbl) : \A r \in post_ids : q <= r}}

\* mark_many_seen: INSERT OR IGNORE of every id, one timestamp
mark_many_seen(tbl, post_ids) ==
    tbl \cup {[post_id |-> p, seen_at |-> now] : p \in post_ids \ SeenIds(tbl)}

\* cleanup_old_seen: DELETE ... WHERE seen_at < cutoff
cleanup_old_seen(tbl, keep_days) ==
    {r \in tbl : ~(r.seen_at < now - keep_days)}

\* log_notification
log_notification(tbl, post_id, keyword, status) ==
    Append(tbl, [post_id |-> post_id, keyword |-> keyword,
                 status |-> status, sent_at |-> now])

\* cleanup_old_notifications: DELETE ... WHERE sent_at < cutoff
cleanup_old_notifications(tbl, keep_days) ==
    SelectSeq(tbl, LAMBDA r : ~(r.sent_at < now - keep_days))

\* get_setting
get_setting(key) == IF key \in DOMAIN settings THEN settings[key] ELSE NULL

set_setting_Skip(key, value) == settings

\* set_setting: INSERT OR REPLACE
set_setting(key, value) ==
    [k \in (DOMAIN settings) \cup {key} |-> IF k = key THEN value ELSE settings[k]]

(***************************************************************************)
(* monitor.fetch_entries: what a successful request returns.  The global   *)
(* feed serves every current post, a category feed those of its board.     *)
(***************************************************************************)
fetch_entries(category) ==
    IF category = NULL
    THEN feed
    ELSE {p \in feed : PostCategory(p) = category}

(***************************************************************************)
(* bot.poll_rss: the pure parts.                                           *)
(***************************************************************************)
Min(a, b) == IF a <= b THEN a ELSE b

RECURSIVE Sorted_Descending(_)
Sorted_Descending(S) ==
    IF S = {} THEN <<>>
    ELSE LET m == CHOOSE x \in S : \A y \in S : x >= y
         IN  <<m>> \o Sorted_Descending(S \ {m})

\* sorted(entries.items()): the post ids in ascending order
RECURSIVE Sorted(_)
Sorted(S) ==
    IF S = {} THEN <<>>
    ELSE LET m == CHOOSE x \in S : \A y \in S : x <= y
         IN  <<m>> \o Sorted(S \ {m})

EnabledKeywords_All == list_keywords

\* the enabled rules, in list order
EnabledKeywords == SelectSeq(list_keywords, LAMBDA kw : kw.enabled)

\* need_global
need_global(rules) == \E i \in 1..Len(rules) : rules[i].category = NULL

\* specific_cats
specific_cats(rules) ==
    {rules[i].category : i \in {j \in 1..Len(rules) : rules[j].category # NULL}}

FetchScopes_Both(rules) ==
    IF need_global(rules) THEN {NULL} \cup specific_cats(rules)
    ELSE specific_cats(rules)

\* the scopes the cycle requests: NULL stands for the unscoped feed
FetchScopes(rules) ==
    IF need_global(rules) THEN {NULL} ELSE specific_cats(rules)

\* the category precondition of a rule for a post
CategoryOk(kw, post_id) ==
    kw.category = NULL \/ kw.category = PostCategory(post_id)

Matched_AnyCategory(post_id, rules) ==
    LET hit == SelectSeq(rules, LAMBDA kw :
                   Matches(PostTitle(post_id), kw.keyword, kw.match_mode))
    IN  [i \in 1..Len(hit) |-> hit[i].keyword]

\* the list comprehension `matched`
Matched(post_id, rules) ==
    LET hit == SelectSeq(rules, LAMBDA kw :
                   /\ CategoryOk(kw, post_id)
                   /\ Matches(PostTitle(post_id), kw.keyword, kw.match_mode))
    IN  [i \in 1..Len(hit) |-> hit[i].keyword]

\* the list comprehension raises: some rule that passes the category test
\* (evaluated first) makes monitor.matches raise
MatchedRaises(post_id, rules) ==
    \E i \in 1..Len(rules) :
        /\ CategoryOk(rules[i], post_id)
        /\ MatchesRaises(PostTitle(post_id), rules[i].keyword,
                         rules[i].match_mode)

RECURSIVE Collect_NoMarkQueued(_, _, _, _)
Collect_NoMarkQueued(ids, rules, ledger, queue) ==
    IF ids = <<>>
    THEN [seen |-> ledger, notifications |-> queue, raised |-> FALSE]
    ELSE LET post_id == Head(ids)
         IN  IF is_seen(ledger, post_id)
             THEN Collect_NoMarkQueued(Tail(ids), rules, ledger, queue)
             ELSE LET matched == Matched(post_id, rules)
                  IN  IF matched # <<>>
                      THEN Collect_NoMarkQueued(Tail(ids), rules, ledger,
                               Append(queue, [post_id |-> post_id,
                                              matched |-> matched]))
                      ELSE Collect_NoMarkQueued(Tail(ids), rules,
                               mark_seen(ledger, post_id), queue)

\* the loop over the sorted entries: marks each unseen post and collects the
\* notification queue; an exception of the comprehension ends the loop after
\* the post was marked
RECURSIVE Collect(_, _, _, _)
Collect(ids, rules, ledger, queue) ==
    IF ids = <<>>
    THEN [seen |-> ledger, notifications |-> queue, raised |-> FALSE]
    ELSE LET post_id == Head(ids)
         IN  IF is_seen(ledger, post_id)
             THEN Collect(Tail(ids), rules, ledger, queue)
             ELSE IF MatchedRaises(post_id, rules)
             THEN [seen |-> mark_seen(ledger, post_id),
                   notifications |-> queue, raised |-> TRUE]
             ELSE LET matched == Matched(post_id, rules)
                  IN  Collect(Tail(ids), rules, mark_seen(ledger, post_id),
                              IF matched # <<>>
                              THEN Append(queue, [post_id |-> post_id,
                                                  matched |-> matched])
                              ELSE queue)

SliceTo_OneMore(queue, n) == SubSeq(queue, 1, Min(n + 1, Len(queue)))

\* notifications[:cap]
SliceTo(queue, n) == SubSeq(queue, 1, Min(n, Len(queue)))

SliceFrom_SkipsOne(queue, n) ==
    SubSeq(queue, Min(n, Len(queue)) + 2, Len(queue))

\* notifications[cap:]
SliceFrom(queue, n) == SubSeq(queue, Min(n, Len(queue)) + 1, Len(queue))

\* for kw in matched_kws: storage.log_notification(..., status)
RECURSIVE LogMatched(_, _, _, _)
LogMatched(tbl, post_id, matched, status) ==
    IF matched = <<>> THEN tbl
    ELSE LogMatched(log_notification(tbl, post_id, Head(matched), status),
                    post_id, Tail(matched), status)

\* the status written for an individually delivered post
StatusOf(success) == IF success THEN "sent" ELSE "failed"

\* the rows of the overflow posts, written while the summary is built
RECURSIVE LogOverflow(_, _)
LogOverflow(tbl, items) ==
    IF items = <<>> THEN tbl
    ELSE LogOverflow(LogMatched(tbl, Head(items).post_id, Head(items).matched,
                                "sent"),
                     Tail(items))

AlertDue_AtLeast(count) == count >= RSS_FAIL_ALERT_THRESHOLD

\* the alert condition after the counter was incremented
AlertDue(count) == count = RSS_FAIL_ALERT_THRESHOLD

RetryAgain_OneMore(n) == n < max_retries

\* whether _send_with_retry sleeps and tries again after a failed attempt
RetryAgain(n) == n < max_retries - 1

(***************************************************************************)
(* Observation records.                                                    *)
(***************************************************************************)
\* paused: the keywords (lower case) that a pause command of the operator
\* has disabled rules of, with no resume command for the keyword since
NoRet == [op |-> "none", user |-> ALLOWED_USER_ID, keyword |-> <<>>,
          category |-> NULL, added |-> FALSE, count |-> 0, reply |-> "none",
          paused |-> {}]

\* the observation of a command that called no storage function
NoCall == [NoRet EXCEPT !.paused = ret.paused]

NoPrev == [kind |-> "none", fetched |-> {}, seen_end |-> {}, marked |-> {}]

\* kind: how the cycle ended; rules: the snapshot of the enabled rules;
\* start_seen, start_ledger, start_init, start_log, start_fail: the ledger
\* (ids, rows), the flag, the audit log and the failure counter when the
\* cycle started; start_paused: the keywords paused and not resumed then;
\* start_store: the rule store then; match_store: the rule store when the
\* matching loop ran;
\* ever_seen: the posts marked seen in earlier cycles; fetched: the merged
\* entries; requests: the feed requests; queue: the notification queue;
\* sends: the send_message calls; results: the return values of
\* _send_with_retry; rows: the audit rows written; pruned: housekeeping ran;
\* prev: the cycle before, with the posts it marked seen

\* a fresh observation of a cycle that starts in the current state
NewCycle(kind, rules) ==
    [kind       |-> kind,
     done       |-> FALSE,
     rules      |-> rules,
     start_seen |-> SeenIds(seen_posts),
     start_init |-> get_setting("initialized") = "true",
     start_log  |-> notifications,
     start_ledger |-> seen_posts,
     start_fail |-> rss_fail_count,
     start_paused |-> ret.paused,
     start_store |-> keywords,
     match_store |-> <<>>,
     ever_seen  |-> cyc.ever_seen \cup SeenIds(seen_posts),
     fetched    |-> {},
     requests   |-> <<>>,
     queue      |-> <<>>,
     sends      |-> <<>>,
     results    |-> <<>>,
     rows       |-> <<>>,
     pruned     |-> FALSE,
     prev       |-> [kind     |-> cyc.kind,
                     fetched  |-> cyc.fetched,
                     seen_end |-> SeenIds(seen_posts),
                     marked   |-> SeenIds(seen_posts) \ cyc.start_seen]]

NoCycle ==
    [kind |-> "none", done |-> TRUE, rules |-> <<>>, start_seen |-> {},
     start_init |-> FALSE, start_log |-> <<>>, start_ledger |-> {},
     start_fail |-> 0, start_paused |-> {}, start_store |-> <<>>,
     match_store |-> <<>>,
     ever_seen |-> {}, fetched |-> {},
     requests |-> <<>>, queue |-> <<>>, sends |-> <<>>, results |-> <<>>,
     rows |-> <<>>, pruned |-> FALSE, prev |-> NoPrev]

NoLocal ==
    /\ kws = <<>> /\ to_fetch = {} /\ entries = {} /\ to_send = <<>>
    /\ overflow = <<>> /\ idx = 0 /\ attempt = 0

\* poll_rss returns: its locals are gone
Return(c) ==
    /\ pc' = "idle"
    /\ kws' = <<>> /\ to_fetch' = {} /\ entries' = {} /\ to_send' = <<>>
    /\ overflow' = <<>> /\ idx' = 0 /\ attempt' = 0
    /\ cyc' = [c EXCEPT !.done = TRUE]

\* the rows a table gained, given that rows are only appended
Gained(old, new) == SubSeq(new, Len(old) + 1, Len(new))

(***************************************************************************)
(* Operator commands (bot.cmd_add, cmd_remove, cmd_pause, cmd_resume).     *)
(* The handlers run without suspension up to their reply.                  *)
(***************************************************************************)
authorized_Anyone(user) == TRUE

\* _authorized
authorized(user) == user = ALLOWED_USER_ID

CmdFrame ==
    UNCHANGED <<seen_posts, notifications, settings, rss_fail_count, cap, now,
                feed, pc, kws, to_fetch, entries, to_send, overflow, idx,
                attempt, cyc, health>>

cmd_add(user, keyword, category, match_mode) ==
    /\ Len(add_keyword_table(keyword, category, match_mode)) <= MaxRules
    /\ IF ~authorized(user)
       THEN /\ ret' = [NoCall EXCEPT !.op = "add", !.user = user]
            /\ UNCHANGED keywords
       ELSE IF keyword = <<>>
       THEN /\ ret' = [NoCall EXCEPT !.op = "add", !.reply = "empty"]
            /\ UNCHANGED keywords
       ELSE IF match_mode = "regex" /\ RegexOverflows(keyword)
       THEN /\ ret' = [NoCall EXCEPT !.op = "add", !.keyword = keyword,
                                    !.category = category]
            /\ UNCHANGED keywords
       ELSE IF match_mode = "regex" /\ ~ValidRegex(keyword)
       THEN /\ ret' = [NoCall EXCEPT !.op = "add", !.keyword = keyword,
                                    !.category = category, !.reply = "invalid"]
            /\ UNCHANGED keywords
       ELSE /\ keywords' = add_keyword_table(keyword, category, match_mode)
            /\ ret' = [op |-> "add", user |-> user, keyword |-> keyword,
                       category |-> category,
                       added |-> add_keyword_result(keyword, category),
                       count |-> 0, paused |-> ret.paused,
                       reply |-> IF add_keyword_result(keyword, category)
                                 THEN "added" ELSE "exists"]
    /\ CmdFrame

cmd_remove(user, keyword) ==
    /\ IF ~authorized(user)
       THEN /\ ret' = [NoCall EXCEPT !.op = "remove", !.user = user]
            /\ UNCHANGED keywords
       ELSE IF keyword = <<>>
       THEN /\ ret' = [NoCall EXCEPT !.op = "remove", !.reply = "usage"]
            /\ UNCHANGED keywords
       ELSE /\ keywords' = remove_keyword_table(keyword)
            /\ ret' = [op |-> "remove", user |-> user, keyword |-> keyword,
                       category |-> NULL, added |-> FALSE,
                       count |-> remove_keyword_result(keyword),
                       paused |-> ret.paused,
                       reply |-> IF remove_keyword_result(keyword) # 0
                                 THEN "removed" ELSE "notfound"]
    /\ CmdFrame

\* cmd_pause (enabled = FALSE) and cmd_resume (enabled = TRUE)
SetEnabledCmd(op, user, keyword, enabled) ==
    /\ IF ~authorized(user)
       THEN /\ ret' = [NoCall EXCEPT !.op = op, !.user = user]
            /\ UNCHANGED keywords
       ELSE IF keyword = <<>>
       THEN /\ ret' = [NoCall EXCEPT !.op = op, !.reply = "usage"]
            /\ UNCHANGED keywords
       ELSE /\ keywords' = set_keyword_enabled_table(keyword, enabled)
            /\ ret' = [op |-> op, user |-> user, keyword |-> keyword,
                       category |-> NULL, added |-> FALSE,
                       count |-> set_keyword_enabled_result(keyword),
                       paused |-> IF enabled
                                  THEN ret.paused \ {Lower(keyword)}
                                  ELSE IF set_keyword_enabled_result(keyword) # 0
                                  THEN ret.paused \cup {Lower(keyword)}
                                  ELSE ret.paused,
                       reply |-> IF set_keyword_enabled_result(keyword) # 0
                                 THEN "done" ELSE "notfound"]
    /\ CmdFrame

cmd_pause(user, keyword) == SetEnabledCmd("pause", user, keyword, FALSE)

cmd_resume(user, keyword) == SetEnabledCmd("resume", user, keyword, TRUE)

\* get_history: one record per distinct post_id of the audit log, at most
\* `limit` of them; the number of records returned
get_history_count(limit) ==
    Min(limit, Cardinality({notifications[i].post_id :
                               i \in 1..Len(notifications)}))

\* the handlers that only read: the identity check, then the reply
ReadOnlyCmd(op, user, reply, count) ==
    /\ IF ~authorized(user)
       THEN ret' = [NoCall EXCEPT !.op = op, !.user = user]
       ELSE ret' = [NoCall EXCEPT !.op = op, !.reply = reply, !.count = count]
    /\ UNCHANGED keywords
    /\ CmdFrame

cmd_start(user) == ReadOnlyCmd("start", user, "help", 0)

cmd_list(user) ==
    ReadOnlyCmd("list", user,
                IF list_keywords = <<>> THEN "nokeywords" ELSE "list",
                Len(list_keywords))

\* without argument: limit = 10
cmd_history(user) ==
    ReadOnlyCmd("history", user,
                IF get_history_count(HISTORY_LIMIT) = 0 THEN "norecords"
                ELSE "history",
                get_history_count(HISTORY_LIMIT))

cmd_categories(user) ==
    ReadOnlyCmd("categories", user, "categories", Cardinality(CATEGORIES))

\* reports the number of enabled rules (and the constants of the deployment)
cmd_status(user) ==
    ReadOnlyCmd("status", user, "status", Len(EnabledKeywords))

(***************************************************************************)
(* bot.poll_rss, one action per stretch of code between two suspensions    *)
(* (feed request, message send, sleep).  A sleep that is followed by no     *)
(* write before the next suspension is folded into the step before it.     *)
(***************************************************************************)
Sent(c, kind, ids, ok) ==
    [c EXCEPT !.sends = Append(@, [kind |-> kind, ids |-> ids, ok |-> ok])]

Logged(c, old, new) == [c EXCEPT !.rows = @ \o Gained(old, new)]

\* lines 369-378: snapshot of the enabled rules, fetch scope
PollStart ==
    /\ pc = "idle"
    /\ LET rules == EnabledKeywords
       IN  IF rules = <<>>
           THEN /\ cyc' = [NewCycle("noop", rules) EXCEPT !.done = TRUE]
                /\ UNCHANGED <<pc, kws, to_fetch, entries>>
           ELSE /\ pc' = "fetch"
                /\ kws' = rules
                /\ to_fetch' = FetchScopes(rules)
                /\ entries' = {}
                /\ cyc' = NewCycle("fetching", rules)
    /\ UNCHANGED <<db, rss_fail_count, cap, now, feed, to_send, overflow, idx,
                   attempt, ret, health>>

\* lines 476-491: the summary text is built and the overflow rows are written
BuildSummary(tbl, items, c) ==
    /\ notifications' = LogOverflow(tbl, items)
    /\ pc' = "summary"
    /\ cyc' = Logged(c, tbl, LogOverflow(tbl, items))

\* lines 502-508: housekeeping, then the job returns
Housekeeping(c) ==
    /\ seen_posts' = cleanup_old_seen(seen_posts, KEEP_DAYS_SEEN)
    /\ notifications' =
           cleanup_old_notifications(notifications, KEEP_DAYS_NOTIFICATIONS)
    /\ Return([c EXCEPT !.pruned = TRUE])

Active_PrunesWithoutMatch(got, c) ==
    LET r     == Collect(Sorted(got), kws, seen_posts, <<>>)
        queue == r.notifications
        c2    == [c EXCEPT !.queue = queue, !.match_store = keywords,
                           !.kind = IF r.raised THEN "aborted"
                                    ELSE IF queue = <<>> THEN "nomatch"
                                    ELSE "active"]
    IN  /\ UNCHANGED settings
        /\ IF r.raised \/ queue = <<>>
           THEN /\ seen_posts' = cleanup_old_seen(r.seen, KEEP_DAYS_SEEN)
                /\ notifications' =
                       cleanup_old_notifications(notifications,
                                                 KEEP_DAYS_NOTIFICATIONS)
                /\ Return([c2 EXCEPT !.pruned = TRUE])
           ELSE /\ seen_posts' = r.seen
                /\ to_send' = SliceTo(queue, cap)
                /\ overflow' = SliceFrom(queue, cap)
                /\ entries' = got
                /\ to_fetch' = {}
                /\ attempt' = 0
                /\ UNCHANGED kws
                /\ IF SliceTo(queue, cap) # <<>>
                   THEN /\ pc' = "send"
                        /\ idx' = 1
                        /\ cyc' = c2
                        /\ UNCHANGED notifications
                   ELSE /\ idx' = 0
                        /\ BuildSummary(notifications, SliceFrom(queue, cap), c2)

Active_LiveRules(got, c) ==
    LET r     == Collect(Sorted(got), EnabledKeywords, seen_posts, <<>>)
        queue == r.notifications
        c2    == [c EXCEPT !.queue = queue, !.match_store = keywords,
                           !.kind = IF r.raised THEN "aborted"
                                    ELSE IF queue = <<>> THEN "nomatch"
                                    ELSE "active"]
    IN  /\ seen_posts' = r.seen
        /\ UNCHANGED settings
        /\ IF r.raised \/ queue = <<>>
           THEN /\ UNCHANGED notifications
                /\ Return(c2)
           ELSE /\ to_send' = SliceTo(queue, cap)
                /\ overflow' = SliceFrom(queue, cap)
                /\ entries' = got
                /\ to_fetch' = {}
                /\ attempt' = 0
                /\ UNCHANGED kws
                /\ IF SliceTo(queue, cap) # <<>>
                   THEN /\ pc' = "send"
                        /\ idx' = 1
                        /\ cyc' = c2
                        /\ UNCHANGED notifications
                   ELSE /\ idx' = 0
                        /\ BuildSummary(notifications, SliceFrom(queue, cap), c2)

\* lines 421-453: the active branch
Active(got, c) ==
    LET r     == Collect(Sorted(got), kws, seen_posts, <<>>)
        queue == r.notifications
        c2    == [c EXCEPT !.queue = queue, !.match_store = keywords,
                           !.kind = IF r.raised THEN "aborted"
                                    ELSE IF queue = <<>> THEN "nomatch"
                                    ELSE "active"]
    IN  /\ seen_posts' = r.seen
        /\ UNCHANGED settings
        /\ IF r.raised \/ queue = <<>>
           THEN /\ UNCHANGED notifications
                /\ Return(c2)
           ELSE /\ to_send' = SliceTo(queue, cap)
                /\ overflow' = SliceFrom(queue, cap)
                /\ entries' = got
                /\ to_fetch' = {}
                /\ attempt' = 0
                /\ UNCHANGED kws
                /\ IF SliceTo(queue, cap) # <<>>
                   THEN /\ pc' = "send"
                        /\ idx' = 1
                        /\ cyc' = c2
                        /\ UNCHANGED notifications
                   ELSE /\ idx' = 0
                        /\ BuildSummary(notifications, SliceFrom(queue, cap), c2)

AfterFetch_ResetIfEntries(got, c) ==
    /\ rss_fail_count' = IF got = {} THEN rss_fail_count ELSE 0
    /\ health' = [streak_alerts |-> 0, failures |-> 0, alert_failed |-> FALSE,
                  rearmed |-> health.rearmed \/ health.streak_alerts > 0]
    /\ IF got = {}
       THEN /\ UNCHANGED <<seen_posts, notifications, settings>>
            /\ Return([c EXCEPT !.kind = "empty"])
       ELSE IF get_setting("initialized") # "true"
       THEN /\ seen_posts' = mark_many_seen(seen_posts, got)
            /\ settings' = set_setting("initialized", "true")
            /\ UNCHANGED notifications
            /\ Return([c EXCEPT !.kind = "seed"])
       ELSE Active(got, c)

\* lines 408-418: after the last successful request
AfterFetch(got, c) ==
    /\ rss_fail_count' = 0
    /\ health' = [streak_alerts |-> 0, failures |-> 0, alert_failed |-> FALSE,
                  rearmed |-> health.rearmed \/ health.streak_alerts > 0]
    /\ IF got = {}
       THEN /\ UNCHANGED <<seen_posts, notifications, settings>>
            /\ Return([c EXCEPT !.kind = "empty"])
       ELSE IF get_setting("initialized") # "true"
       THEN /\ seen_posts' = mark_many_seen(seen_posts, got)
            /\ settings' = set_setting("initialized", "true")
            /\ UNCHANGED notifications
            /\ Return([c EXCEPT !.kind = "seed"])
       ELSE Active(got, c)

\* lines 382-389: one feed request succeeds
FetchOk(category) ==
    /\ pc = "fetch"
    /\ category \in to_fetch
    /\ LET got == entries \cup fetch_entries(category)
           c   == [cyc EXCEPT !.requests = Append(@, category), !.fetched = got]
       IN  IF to_fetch \ {category} # {}
           THEN /\ entries' = got
                /\ to_fetch' = to_fetch \ {category}
                /\ cyc' = c
                /\ UNCHANGED <<db, rss_fail_count, health, pc, kws, to_send,
                               overflow, idx, attempt>>
           ELSE AfterFetch(got, c)
    /\ UNCHANGED <<keywords, cap, now, feed, ret>>

FetchFail_KeepsEntries(category, limit) ==
    /\ pc = "fetch"
    /\ category \in to_fetch
    /\ rss_fail_count < limit
    /\ rss_fail_count' = rss_fail_count + 1
    /\ seen_posts' = mark_many_seen(seen_posts, entries)
    /\ LET c == [cyc EXCEPT !.requests = Append(@, category),
                            !.kind = "failed", !.fetched = {}]
       IN  IF AlertDue(rss_fail_count + 1)
           THEN /\ pc' = "alert"
                /\ kws' = <<>> /\ to_fetch' = {} /\ entries' = {}
                /\ cyc' = c
                /\ UNCHANGED <<to_send, overflow, idx, attempt>>
           ELSE Return(c)
    /\ health' = [health EXCEPT !.failures = @ + 1]
    /\ UNCHANGED <<keywords, notifications, settings, cap, now, feed, ret>>

\* lines 390-406: one feed request raises
FetchFail(category, limit) ==
    /\ pc = "fetch"
    /\ category \in to_fetch
    /\ rss_fail_count < limit
    /\ rss_fail_count' = rss_fail_count + 1
    /\ LET c == [cyc EXCEPT !.requests = Append(@, category),
                            !.kind = "failed", !.fetched = {}]
       IN  IF AlertDue(rss_fail_count + 1)
           THEN /\ pc' = "alert"
                /\ kws' = <<>> /\ to_fetch' = {} /\ entries' = {}
                /\ cyc' = c
                /\ UNCHANGED <<to_send, overflow, idx, attempt>>
           ELSE Return(c)
    /\ health' = [health EXCEPT !.failures = @ + 1]
    /\ UNCHANGED <<db, cap, now, feed, ret>>

AlertSend_RollsBack(ok) ==
    /\ pc = "alert"
    /\ health' = [health EXCEPT !.streak_alerts = @ + 1,
                                !.alert_failed = ~ok,
                                !.failures = IF ok THEN @ ELSE @ - 1]
    /\ Return(Sent(cyc, "alert", {}, ok))
    /\ rss_fail_count' = IF ok THEN rss_fail_count ELSE rss_fail_count - 1
    /\ UNCHANGED <<db, cap, now, feed, ret>>

\* lines 394-405: the alert's single send_message returns or raises
AlertSend(ok) ==
    /\ pc = "alert"
    /\ health' = [health EXCEPT !.streak_alerts = @ + 1,
                                !.alert_failed = ~ok]
    /\ Return(Sent(cyc, "alert", {}, ok))
    /\ UNCHANGED <<db, rss_fail_count, cap, now, feed, ret>>

AlertSendOk == AlertSend(TRUE)

AlertSendFail == AlertSend(FALSE)

\* lines 465-473 after _send_with_retry returned `success` for to_send[idx]
Delivered(success, c) ==
    LET item == to_send[idx]
        tbl  == LogMatched(notifications, item.post_id, item.matched,
                           StatusOf(success))
    IN  /\ notifications' = tbl
        /\ cyc' = [Logged(c, notifications, tbl) EXCEPT
                       !.results = Append(@, [post_id |-> item.post_id,
                                              success |-> success])]
        /\ attempt' = 0
        /\ IF idx < Len(to_send)
           THEN /\ idx' = idx + 1
                /\ pc' = "send"
           ELSE /\ idx' = idx
                /\ pc' = "pace"
        /\ UNCHANGED <<kws, to_fetch, entries, to_send, overflow>>

\* _send_with_retry: bot.send_message returns
SendOk ==
    /\ pc = "send"
    /\ Delivered(TRUE, Sent(cyc, "post", {to_send[idx].post_id}, TRUE))
    /\ UNCHANGED <<keywords, seen_posts, settings, rss_fail_count, cap, now,
                   feed, ret, health>>

\* _send_with_retry: bot.send_message raises
SendFail ==
    /\ pc = "send"
    /\ IF RetryAgain(attempt)
       THEN /\ attempt' = attempt + 1
            /\ cyc' = Sent(cyc, "post", {to_send[idx].post_id}, FALSE)
            /\ UNCHANGED <<notifications, pc, kws, to_fetch, entries, to_send,
                           overflow, idx>>
       ELSE Delivered(FALSE, Sent(cyc, "post", {to_send[idx].post_id}, FALSE))
    /\ UNCHANGED <<keywords, seen_posts, settings, rss_fail_count, cap, now,
                   feed, ret, health>>

\* lines 473-508: after the pause that follows the last individual delivery
AfterPace ==
    /\ pc = "pace"
    /\ IF overflow # <<>>
       THEN /\ BuildSummary(notifications, overflow, cyc)
            /\ UNCHANGED <<seen_posts, kws, to_fetch, entries, to_send,
                           overflow, idx, attempt>>
       ELSE Housekeeping(cyc)
    /\ UNCHANGED <<keywords, settings, rss_fail_count, cap, now, feed, ret,
                   health>>

SummarySend_Propagates(ok) ==
    /\ pc = "summary"
    /\ LET c == Sent(cyc, "summary",
                     {overflow[i].post_id : i \in 1..Len(overflow)}, ok)
       IN  IF ok THEN Housekeeping(c)
           ELSE /\ Return(c)
                /\ UNCHANGED <<seen_posts, notifications>>
    /\ UNCHANGED <<keywords, settings, rss_fail_count, cap, now, feed, ret,
                   health>>

\* lines 492-508: the summary's single send_message returns or raises
SummarySend(ok) ==
    /\ pc = "summary"
    /\ Housekeeping(Sent(cyc, "summary",
                         {overflow[i].post_id : i \in 1..Len(overflow)}, ok))
    /\ UNCHANGED <<keywords, settings, rss_fail_count, cap, now, feed, ret,
                   health>>

SummarySendOk == SummarySend(TRUE)

SummarySendFail == SummarySend(FALSE)

(***************************************************************************)
(* A cycle that is cut short: the process is killed, or a storage call      *)
(* raises and the exception leaves poll_rss.  What the committed             *)
(* transactions wrote stays; the locals are gone; a restarted process       *)
(* starts with _rss_fail_count = 0.                                         *)
(***************************************************************************)
\* the cycle ends while it is suspended in a feed request, a send or a sleep
Crash ==
    /\ pc # "idle"
    /\ rss_fail_count' = 0
    /\ health' = [health EXCEPT !.streak_alerts = 0, !.failures = 0,
                                !.alert_failed = FALSE]
    /\ Return([cyc EXCEPT !.kind = "crashed"])
    /\ UNCHANGED <<db, cap, now, feed, ret>>

\* lines 424-437: the cycle ends inside the loop, after the k-th fetched
\* entry, an unseen one, was marked seen (line 427) and before the next
\* entry is looked at
AbortInLoop(category, k) ==
    /\ pc = "fetch"
    /\ to_fetch = {category}
    /\ get_setting("initialized") = "true"
    /\ LET got == entries \cup fetch_entries(category)
           ids == Sorted(got)
       IN  /\ k \in 1..Len(ids)
           /\ ~is_seen(seen_posts, ids[k])
           /\ seen_posts' =
                  Collect(SubSeq(ids, 1, k), kws, seen_posts, <<>>).seen
           /\ Return([cyc EXCEPT !.requests = Append(@, category),
                                 !.fetched = got, !.kind = "crashed"])
    /\ rss_fail_count' = 0
    /\ health' = [health EXCEPT !.streak_alerts = 0, !.failures = 0,
                                !.alert_failed = FALSE]
    /\ UNCHANGED <<keywords, notifications, settings, cap, now, feed, ret>>

SeedInterrupted_FlagFirst(category) ==
    /\ pc = "fetch"
    /\ to_fetch = {category}
    /\ get_setting("initialized") # "true"
    /\ LET got == entries \cup fetch_entries(category)
       IN  /\ got # {}
           /\ settings' = set_setting("initialized", "true")
           /\ Return([cyc EXCEPT !.requests = Append(@, category),
                                 !.fetched = got, !.kind = "crashed"])
    /\ rss_fail_count' = 0
    /\ health' = [health EXCEPT !.streak_alerts = 0, !.failures = 0,
                                !.alert_failed = FALSE]
    /\ UNCHANGED <<keywords, seen_posts, notifications, cap, now, feed, ret>>

\* lines 416-417: the cycle ends in the seeding branch after mark_many_seen
\* has committed and before set_setting has
SeedInterrupted(category) ==
    /\ pc = "fetch"
    /\ to_fetch = {category}
    /\ get_setting("initialized") # "true"
    /\ LET got == entries \cup fetch_entries(category)
       IN  /\ got # {}
           /\ seen_posts' = mark_many_seen(seen_posts, got)
           /\ Return([cyc EXCEPT !.requests = Append(@, category),
                                 !.fetched = got, !.kind = "crashed"])
    /\ rss_fail_count' = 0
    /\ health' = [health EXCEPT !.streak_alerts = 0, !.failures = 0,
                                !.alert_failed = FALSE]
    /\ UNCHANGED <<keywords, notifications, settings, cap, now, feed, ret>>

(***************************************************************************)
(* Environment.                                                            *)
(***************************************************************************)
\* the forum publishes a post; post ids grow over time.  A post published
\* after the cycle's last feed request is first served to the next cycle, so
\* it is published once the job is idle again.
Publish(p) ==
    /\ pc \in {"idle", "fetch"}
    /\ p \notin feed
    /\ \A q \in feed : q < p
    /\ feed' = feed \cup {p}
    /\ UNCHANGED <<db, rss_fail_count, cap, now, pc, local, ret, cyc, health>>

\* time passes between two cycles
Tick ==
    /\ pc = "idle"
    /\ now + TickDays <= MaxClock
    /\ now' = now + TickDays
    /\ UNCHANGED <<db, rss_fail_count, cap, feed, pc, local, ret, cyc, health>>

\* the clock advances in steps of two retention windows of the seen ledger
LongTickDays == 2 * (KEEP_DAYS_SEEN + 1)

\* a long time passes between two cycles
LongTick ==
    /\ pc = "idle"
    /\ now + LongTickDays <= MaxLongClock
    /\ now' = now + LongTickDays
    /\ UNCHANGED <<db, rss_fail_count, cap, feed, pc, local, ret, cyc, health>>

(***************************************************************************)
(* Specifications.                                                         *)
(***************************************************************************)
\* the state after main(): init_db on an empty database, no job run yet
Boot ==
    /\ seen_posts = {}
    /\ notifications = <<>>
    /\ settings = <<>>
    /\ rss_fail_count = 0
    /\ now = 0
    /\ pc = "idle"
    /\ NoLocal
    /\ ret = NoRet
    /\ cyc = NoCycle
    /\ health = [streak_alerts |-> 0, failures |-> 0, alert_failed |-> FALSE,
                 rearmed |-> FALSE]

Rule(keyword, category, match_mode, enabled) ==
    [keyword |-> keyword, category |-> category, match_mode |-> match_mode,
     enabled |-> enabled]

\* rule stores the operator has set up before the job runs: one unscoped
\* rule; one text under two scopes; two scoped rules of different boards;
\* a paused unscoped rule and a paused rule of one board beside an enabled
\* rule of the other board
RuleStores ==
    { << Rule(<<"D", "M">>, NULL, "substring", TRUE) >>,
      << Rule(<<"D", "M">>, NULL, "substring", TRUE),
         Rule(<<"D", "M">>, "trade", "substring", TRUE) >>,
      << Rule(<<"d", "m">>, "daily", "substring", TRUE),
         Rule(<<"v", "p">>, "trade", "regex", TRUE) >>,
      << Rule(<<"v", "p">>, NULL, "substring", FALSE),
         Rule(<<"D", "M">>, "trade", "substring", TRUE),
         Rule(<<"d", "m">>, "daily", "substring", FALSE) >> }

Scopes == CATEGORIES \cup {NULL}

\* the rule the operator, or a stranger, asks for while the job runs
OpRules == { <<<<"D", "M">>, NULL, "substring">> }

OpTexts == {r[1] : r \in OpRules}

CmdAdd == \E u \in Users, r \in OpRules : cmd_add(u, r[1], r[2], r[3])

CmdRemove == \E u \in Users, k \in OpTexts : cmd_remove(u, k)

CmdPause == \E u \in Users, k \in OpTexts : cmd_pause(u, k)

CmdResume == \E u \in Users, k \in OpTexts : cmd_resume(u, k)

CmdStart == \E u \in Users : cmd_start(u)

CmdList == \E u \in Users : cmd_list(u)

CmdHistory == \E u \in Users : cmd_history(u)

CmdCategories == \E u \in Users : cmd_categories(u)

CmdStatus == \E u \in Users : cmd_status(u)

\* the operator's own commands, on the unscoped rules and those of one board
StoreScopes == {NULL, "trade"}

\* "vp" is registered in either mode, the other texts as substrings
StoreModes(k) == IF k = <<"v", "p">> THEN MatchModes ELSE {"substring"}

StoreAdd == \E k \in KeywordTexts, c \in StoreScopes :
                \E m \in StoreModes(k) : cmd_add(ALLOWED_USER_ID, k, c, m)

StoreRemove == \E k \in KeywordTexts : cmd_remove(ALLOWED_USER_ID, k)

StorePause == \E k \in KeywordTexts : cmd_pause(ALLOWED_USER_ID, k)

StoreResume == \E k \in KeywordTexts : cmd_resume(ALLOWED_USER_ID, k)

Fetched == \E c \in Scopes : FetchOk(c)

FetchError == \E c \in Scopes : FetchFail(c, MaxOutage)

Published == \E p \in PostIds : Publish(p)

\* the poll pipeline under a rule store fixed before the first cycle
Init ==
    /\ Boot
    /\ keywords \in RuleStores
    /\ cap \in 0..MaxCap
    /\ feed = {}

Next ==
    \/ PollStart \/ Fetched \/ FetchError
    \/ SendOk \/ SendFail \/ AfterPace \/ SummarySendOk \/ SummarySendFail
    \/ Published \/ Tick

Spec == Init /\ [][Next]_vars

\* the rule store under operator commands
InitStore ==
    /\ Boot
    /\ keywords = <<>>
    /\ cap = 0
    /\ feed = {}

NextStore == StoreAdd \/ StoreRemove \/ StorePause \/ StoreResume

SpecStore == InitStore /\ [][NextStore]_vars

\* feed health: one unscoped rule, or two rules of different boards; outages
\* of any length up to MaxFail
InitHealth ==
    /\ Boot
    /\ keywords \in { << Rule(<<"D", "M">>, NULL, "substring", TRUE) >>,
                       << Rule(<<"d", "m">>, "daily", "substring", TRUE),
                          Rule(<<"v", "p">>, "trade", "regex", TRUE) >> }
    /\ cap \in {0, 1}
    /\ feed = {}

Outage == \E c \in Scopes : FetchFail(c, MaxFail)

Burst == \E p \in Posts(MaxBurst) : Publish(p)

NextHealth ==
    \/ PollStart \/ Fetched \/ Outage \/ AlertSendOk \/ AlertSendFail
    \/ SendOk \/ SendFail \/ AfterPace \/ SummarySendOk \/ SummarySendFail
    \/ Published

SpecHealth == InitHealth /\ [][NextHealth]_vars

\* matching, flood control and delivery while the clock stands still
InitFlood ==
    /\ Boot
    /\ keywords \in RuleStores
    /\ cap \in 0..MaxCap
    /\ feed = {}

NextFlood ==
    \/ PollStart \/ Fetched
    \/ SendOk \/ SendFail \/ AfterPace \/ SummarySendOk \/ SummarySendFail
    \/ Burst

SpecFlood == InitFlood /\ [][NextFlood]_vars

OpsPublished == \E p \in Posts(MaxOps) : Publish(p)

LoopAborted == \E c \in Scopes, k \in 1..MaxBurst : AbortInLoop(c, k)

\* the poll pipeline with cycles that are cut short at any point
InitCrash ==
    /\ Boot
    /\ keywords \in { << Rule(<<"D", "M">>, NULL, "substring", TRUE) >>,
                       << Rule(<<"d", "m">>, "daily", "substring", TRUE),
                          Rule(<<"v", "p">>, "trade", "regex", TRUE) >> }
    /\ cap \in {0, 1}
    /\ feed = {}

NextCrash ==
    \/ PollStart \/ Fetched
    \/ SendOk \/ SendFail \/ AfterPace \/ SummarySendOk \/ SummarySendFail
    \/ Crash \/ LoopAborted
    \/ Burst

SpecCrash == InitCrash /\ [][NextCrash]_vars

\* the poll pipeline over more than a month: two unscoped rules that
\* between them match every post of the forum
InitPrune ==
    /\ Boot
    /\ keywords = << Rule(<<"D", "M">>, NULL, "substring", TRUE),
                     Rule(<<"u", "n">>, NULL, "substring", TRUE) >>
    /\ cap = 1
    /\ feed = {}

NextPrune ==
    \/ PollStart \/ Fetched \/ FetchError
    \/ SendOk \/ SendFail \/ AfterPace \/ SummarySendOk \/ SummarySendFail
    \/ Published \/ LongTick

SpecPrune == InitPrune /\ [][NextPrune]_vars

SeedAborted == \E c \in Scopes : SeedInterrupted(c)

\* the poll job over more than a month with cycles that are cut short,
\* also between the two writes of the seeding branch
InitSeed ==
    /\ Boot
    /\ keywords \in { << Rule(<<"D", "M">>, NULL, "substring", TRUE) >>,
                       << Rule(<<"d", "m">>, "daily", "substring", TRUE),
                          Rule(<<"v", "p">>, "trade", "regex", TRUE) >> }
    /\ cap \in {0, 1}
    /\ feed = {}

NextSeed ==
    \/ PollStart \/ Fetched
    \/ SendOk \/ SendFail \/ AfterPace \/ SummarySendOk \/ SummarySendFail
    \/ Crash \/ SeedAborted
    \/ Published \/ LongTick

SpecSeed == InitSeed /\ [][NextSeed]_vars

\* the poll job with the command handlers running at its suspension points
InitOps ==
    /\ Boot
    /\ keywords = <<>>
    /\ cap \in {0, 1}
    /\ feed = {}

NextOps ==
    \/ CmdAdd \/ CmdRemove \/ CmdPause \/ CmdResume
    \/ CmdStart \/ CmdList \/ CmdHistory \/ CmdCategories \/ CmdStatus
    \/ PollStart \/ Fetched \/ FetchError
    \/ SendOk \/ SendFail \/ AfterPace \/ SummarySendOk \/ SummarySendFail
    \/ OpsPublished

SpecOps == InitOps /\ [][NextOps]_vars

\* the operator's commands while the job runs: the rule that is added, and
\* the keyword, typed in upper case, that is removed, paused and resumed
LiveRules == { <<<<"v", "p">>, "trade", "substring">> }

LiveTexts == { <<"V", "P">> }

LiveAdd == \E r \in LiveRules : cmd_add(ALLOWED_USER_ID, r[1], r[2], r[3])

LiveRemove == \E k \in LiveTexts : cmd_remove(ALLOWED_USER_ID, k)

LivePause == \E k \in LiveTexts : cmd_pause(ALLOWED_USER_ID, k)

LiveResume == \E k \in LiveTexts : cmd_resume(ALLOWED_USER_ID, k)

\* the poll job with the operator changing the rule store at its
\* suspension points; at the start the keyword is stored for two boards, in
\* different case, beside a rule of another keyword that stays as it is
InitLive ==
    /\ Boot
    /\ keywords = << Rule(<<"v", "p">>, "trade", "substring", TRUE),
                     Rule(<<"V", "P">>, "daily", "substring", TRUE),
                     Rule(<<"d", "m">>, "daily", "substring", TRUE) >>
    /\ cap \in {0, 1}
    /\ feed = {}

NextLive ==
    \/ LiveAdd \/ LiveRemove \/ LivePause \/ LiveResume
    \/ PollStart \/ Fetched
    \/ SendOk \/ SendFail \/ AfterPace \/ SummarySendOk \/ SummarySendFail
    \/ OpsPublished

SpecLive == InitLive /\ [][NextLive]_vars

\* rule stores holding a regex rule that cmd_add would have refused (rows
\* written to the database file by another tool): an unbalanced parenthesis,
\* unscoped; a repetition count beyond the engine's limit, for one board
RegexStores ==
    { << Rule(<<"(", "v">>, NULL, "regex", TRUE),
         Rule(<<"d", "m">>, NULL, "substring", TRUE) >>,
      << Rule(<<"v", "{">>, "trade", "regex", TRUE),
         Rule(<<"d", "m">>, NULL, "substring", TRUE) >> }

\* the poll pipeline under such a rule store
InitRegex ==
    /\ Boot
    /\ keywords \in RegexStores
    /\ cap \in 0..MaxCap
    /\ feed = {}

NextRegex ==
    \/ PollStart \/ Fetched
    \/ SendOk \/ SendFail \/ AfterPace \/ SummarySendOk \/ SummarySendFail
    \/ Burst

SpecRegex == InitRegex /\ [][NextRegex]_vars

(***************************************************************************)
(* Properties.                                                             *)
(***************************************************************************)
\* send_message calls of one kind observed in a cycle
SendsOf(c, kind) == {i \in 1..Len(c.sends) : c.sends[i].kind = kind}

\* the cycle had an enabled rule and has returned
CycleOver == cyc.done /\ cyc.kind \notin {"none", "noop"}

\* C1: a cycle with an enabled rule sends the health alert (one send_message
\* call) if and only if its fetch failed and the consecutive-failure counter
\* reached exactly RSS_FAIL_ALERT_THRESHOLD in it; an uninterrupted streak of
\* failing cycles has produced one alert once the counter is at or beyond
\* the threshold and none before.
C1_AlertOncePerOutage ==
    /\ Cardinality(SendsOf(cyc, "alert")) <= 1
    /\ ~cyc.done => SendsOf(cyc, "alert") = {}
    /\ CycleOver =>
          /\ SendsOf(cyc, "alert") # {}
                <=> /\ cyc.kind = "failed"
                    /\ rss_fail_count = RSS_FAIL_ALERT_THRESHOLD
          /\ health.streak_alerts =
                IF rss_fail_count >= RSS_FAIL_ALERT_THRESHOLD THEN 1 ELSE 0

\* C1 witness: after an outage that was alerted and a successful fetch, a
\* new streak of failures has reached the threshold and sent a second alert
C1_SecondAlert ==
    /\ CycleOver /\ cyc.kind = "failed"
    /\ health.rearmed
    /\ SendsOf(cyc, "alert") # {}
    /\ rss_fail_count = RSS_FAIL_ALERT_THRESHOLD

\* the posts a send_message call of the cycle was about
PostsSent(c, kind) == UNION {c.sends[i].ids : i \in SendsOf(c, kind)}

\* the posts the cycle wrote an audit row for
PostsLogged(c) == {c.rows[i].post_id : i \in 1..Len(c.rows)}

\* the posts of a queue
QueuePosts(q) == {q[i].post_id : i \in 1..Len(q)}

\* C2 as claimed: a post marked seen in an earlier cycle is never notified or
\* logged again, whatever happened in between (pruning included).
C2_NeverAgain ==
    \A p \in cyc.ever_seen :
        /\ p \notin PostsSent(cyc, "post") \cup PostsSent(cyc, "summary")
        /\ p \notin PostsLogged(cyc)

\* C2 amended: a post whose seen mark is in the ledger when a cycle starts is
\* neither put in the queue, nor notified (individually or in the summary),
\* nor logged by that cycle.
C2_SeenNotNotified ==
    \A p \in cyc.start_seen :
        /\ p \notin QueuePosts(cyc.queue)
        /\ p \notin QueuePosts(to_send) \cup QueuePosts(overflow)
        /\ p \notin PostsSent(cyc, "post") \cup PostsSent(cyc, "summary")
        /\ p \notin PostsLogged(cyc)

\* C2 witness: a cycle that delivered a notification and pruned was fed an
\* entry that was already marked seen
C2_RefedSeenEntry ==
    /\ CycleOver /\ cyc.kind = "active" /\ cyc.pruned
    /\ cyc.fetched \cap cyc.start_seen # {}
    /\ cyc.sends # <<>>

\* C4: a cycle that starts uninitialized, has an enabled rule and fetches a
\* non-empty feed marks every fetched post seen, sets the flag, sends nothing
\* and logs nothing; the next cycle, if it fetches the same entries, sends
\* nothing, logs nothing and leaves the set of seen posts as it was.
C4_SeedingIdempotent ==
    CycleOver =>
        /\ (~cyc.start_init /\ cyc.kind # "failed" /\ cyc.fetched # {}) =>
              /\ cyc.kind = "seed"
              /\ cyc.fetched \subseteq SeenIds(seen_posts)
              /\ get_setting("initialized") = "true"
              /\ cyc.sends = <<>>
              /\ cyc.rows = <<>>
              /\ notifications = <<>>
        /\ (cyc.prev.kind = "seed" /\ cyc.fetched = cyc.prev.fetched) =>
              /\ cyc.sends = <<>>
              /\ cyc.rows = <<>>
              /\ SeenIds(seen_posts) = cyc.prev.seen_end

\* C4 witness: the cycle right after the seeding cycle has run on the same
\* entries
C4_SecondRun ==
    /\ CycleOver
    /\ cyc.prev.kind = "seed"
    /\ cyc.fetched = cyc.prev.fetched
    /\ Cardinality(cyc.fetched) >= 2
    /\ cyc.kind = "nomatch"

\* C8: after an active cycle with a successful fetch has returned, every
\* fetched post that was not in the ledger when it started is in the ledger.
C8_NewPostsMarked ==
    (CycleOver /\ cyc.kind \in {"nomatch", "active"}) =>
        (cyc.fetched \ cyc.start_seen) \subseteq SeenIds(seen_posts)

\* C8 witness: a cycle that delivered and pruned had fetched a new post that
\* no rule matched
C8_UnmatchedNewPost ==
    /\ CycleOver /\ cyc.kind = "active" /\ cyc.pruned
    /\ (cyc.fetched \ cyc.start_seen) \ QueuePosts(cyc.queue) # {}

\* the send_message calls of the cycle made for one post by _send_with_retry
AttemptsFor(c, p) ==
    {i \in SendsOf(c, "post") : c.sends[i].ids = {p}}

\* C3: an active cycle whose queue holds M posts under cap N delivers exactly
\* min(N, M) posts individually, each through _send_with_retry, and sends
\* exactly one summary, covering exactly the other M - N posts, when M > N
\* and none otherwise.
C3_FloodControl ==
    (CycleOver /\ cyc.kind \in {"nomatch", "active"}) =>
        LET M == Len(cyc.queue)
            N == cap
            individual == PostsSent(cyc, "post")
        IN  /\ Cardinality(individual) = Min(N, M)
            /\ Len(cyc.results) = Min(N, M)
            /\ individual = {cyc.results[i].post_id : i \in 1..Len(cyc.results)}
            /\ individual \subseteq QueuePosts(cyc.queue)
            /\ Cardinality(SendsOf(cyc, "summary")) = IF M > N THEN 1 ELSE 0
            /\ M > N =>
                  /\ PostsSent(cyc, "summary") = QueuePosts(cyc.queue) \ individual
                  /\ Cardinality(PostsSent(cyc, "summary")) = M - N

\* C3 witness: cap 2 and three matching posts gave two individual
\* notifications and one summary covering the third
C3_TwoPlusSummary ==
    /\ CycleOver /\ cyc.kind = "active"
    /\ cap = 2
    /\ Len(cyc.queue) = 3
    /\ Cardinality(PostsSent(cyc, "post")) = 2
    /\ Cardinality(PostsSent(cyc, "summary")) = 1

\* the keyword texts of a list
Texts(matched) == {matched[i] : i \in 1..Len(matched)}

\* the rows the cycle wrote for a (post, keyword) pair
RowsFor(c, p, k) ==
    {j \in 1..Len(c.rows) : c.rows[j].post_id = p /\ c.rows[j].keyword = k}

\* C5 as claimed: every individually delivered post has, for each keyword
\* text matched for it, exactly one audit row of this cycle, with status
\* sent if _send_with_retry returned True and failed otherwise.
C5_OneRowPerKeyword ==
    \A i \in 1..Len(cyc.results) :
        LET p == cyc.results[i].post_id
        IN  \A q \in 1..Len(cyc.queue) :
                cyc.queue[q].post_id = p =>
                    \A k \in Texts(cyc.queue[q].matched) :
                        /\ Cardinality(RowsFor(cyc, p, k)) = 1
                        /\ \A j \in RowsFor(cyc, p, k) :
                               cyc.rows[j].status =
                                   IF cyc.results[i].success THEN "sent" ELSE "failed"

\* C6: _send_with_retry makes at most max_retries send attempts for a
\* message, none after a successful one; it has returned True exactly when
\* its last attempt succeeded and False exactly when max_retries attempts
\* were made and all failed; a failed attempt never ends the cycle.
C6_BoundedRetry ==
    /\ attempt \in 0..(max_retries - 1)
    /\ \A p \in PostsSent(cyc, "post") :
          /\ Cardinality(AttemptsFor(cyc, p)) <= max_retries
          /\ \A i \in AttemptsFor(cyc, p) :
                cyc.sends[i].ok => \A j \in AttemptsFor(cyc, p) : j <= i
    /\ \A i \in 1..Len(cyc.results) :
          LET A == AttemptsFor(cyc, cyc.results[i].post_id)
          IN  /\ cyc.results[i].success <=> \E j \in A : cyc.sends[j].ok
              /\ ~cyc.results[i].success <=>
                    /\ Cardinality(A) = max_retries
                    /\ \A j \in A : ~cyc.sends[j].ok
    /\ (pc = "send" /\ attempt > 0) =>
          /\ Cardinality(AttemptsFor(cyc, to_send[idx].post_id)) = attempt
          /\ \A j \in AttemptsFor(cyc, to_send[idx].post_id) : ~cyc.sends[j].ok

\* C6 witness: one message was given up after three failed attempts and the
\* cycle went on to deliver the next one at its second attempt
C6_GaveUpThenDelivered ==
    /\ Len(cyc.results) >= 2
    /\ ~cyc.results[1].success
    /\ Cardinality(AttemptsFor(cyc, cyc.results[1].post_id)) = 3
    /\ cyc.results[2].success
    /\ Cardinality(AttemptsFor(cyc, cyc.results[2].post_id)) = 2

\* the rules of a snapshot that apply to a post: category none or the
\* post's category, and the keyword matches the title
Eligible(rules, p) ==
    {i \in 1..Len(rules) :
        /\ rules[i].category \in {NULL, PostCategory(p)}
        /\ Matches(PostTitle(p), rules[i].keyword, rules[i].match_mode)}

\* the number of elements of S below i
RankIn(S, i) == Cardinality({j \in S : j <= i})

\* C7: in an active cycle with a successful fetch, a post unseen at the
\* start is queued exactly when some enabled rule applies to it, with the
\* keyword texts of exactly the applying rules (in rule order); a post with
\* no applying rule gets no notification and no audit row; nothing else is
\* queued.
C7_QueueIsMatches ==
    (cyc.kind \in {"nomatch", "active"}) =>
        /\ QueuePosts(cyc.queue) \subseteq cyc.fetched \ cyc.start_seen
        /\ \A p \in cyc.fetched \ cyc.start_seen :
              LET E == Eligible(cyc.rules, p)
                  Q == {q \in 1..Len(cyc.queue) : cyc.queue[q].post_id = p}
              IN  IF E = {}
                  THEN /\ Q = {}
                       /\ p \notin PostsSent(cyc, "post") \cup PostsSent(cyc, "summary")
                       /\ p \notin PostsLogged(cyc)
                  ELSE /\ Cardinality(Q) = 1
                       /\ \A q \in Q :
                             /\ Len(cyc.queue[q].matched) = Cardinality(E)
                             /\ \A i \in E :
                                   cyc.queue[q].matched[RankIn(E, i)] =
                                       cyc.rules[i].keyword

\* C7 witness: rule DM for any category, posts 101 "DMvp" (trade) and 102
\* "un" (daily) both new: one notification naming DM for 101, none for 102,
\* one audit row for 101 with status sent
C7_EndToEnd ==
    /\ CycleOver /\ cyc.kind = "active"
    /\ cyc.rules = << Rule(<<"D", "M">>, NULL, "substring", TRUE) >>
    /\ cyc.fetched \ cyc.start_seen = {101, 102}
    /\ cyc.queue = << [post_id |-> 101, matched |-> << <<"D", "M">> >>] >>
    /\ PostsSent(cyc, "post") \cup PostsSent(cyc, "summary") = {101}
    /\ cyc.rows = << [post_id |-> 101, keyword |-> <<"D", "M">>,
                      status |-> "sent", sent_at |-> now] >>
    /\ {101, 102} \subseteq SeenIds(seen_posts)

\* two rules have the same identity: keyword compared case-insensitively,
\* and category
SameIdentity(r1, r2) ==
    Lower(r1.keyword) = Lower(r2.keyword) /\ r1.category = r2.category

\* no two stored rules share identity
NoDuplicateIdentity ==
    \A i, j \in 1..Len(keywords) :
        i # j => ~SameIdentity(keywords[i], keywords[j])

\* the step is a call of the storage function behind command `op`
Called(op) ==
    /\ ret'.op = op
    /\ ret'.reply \notin {"none", "empty", "invalid", "usage"}
    /\ <<ret, keywords>>' # <<ret, keywords>>

\* C9: no two stored rules, enabled or not, ever share identity; add_keyword
\* returns False exactly when a rule of the same identity is stored, and then
\* leaves the table as it is; otherwise (the keyword is new, or stored only
\* under other categories) it returns True and appends the rule, enabled.
C9_UniqueIdentity ==
    /\ []NoDuplicateIdentity
    /\ [][Called("add") =>
            LET new == [keyword |-> ret'.keyword, category |-> ret'.category]
                dup == \E i \in 1..Len(keywords) : SameIdentity(keywords[i], new)
            IN  /\ ret'.added = ~dup
                /\ dup => keywords' = keywords
                /\ ~dup =>
                      /\ Len(keywords') = Len(keywords) + 1
                      /\ SubSeq(keywords', 1, Len(keywords)) = keywords
                      /\ keywords'[Len(keywords')].keyword = ret'.keyword
                      /\ keywords'[Len(keywords')].category = ret'.category
                      /\ keywords'[Len(keywords')].enabled]_vars

\* C9 witness: an add returned True for a keyword that is stored, in another
\* case, under a different category, beside a paused rule
C9_SameKeywordOtherCategory ==
    /\ ret.op = "add" /\ ret.added
    /\ Len(keywords) = 3
    /\ \E i \in 1..2 :
          /\ Lower(keywords[i].keyword) = Lower(keywords[3].keyword)
          /\ keywords[i].keyword # keywords[3].keyword
          /\ keywords[i].category # keywords[3].category
          /\ ~keywords[i].enabled

\* C10: remove_keyword(k) deletes exactly the rules whose keyword equals k
\* case-insensitively, whatever their category, keeps the others as they are
\* and in order, and returns the number of rules deleted; a second
\* remove_keyword(k) right after it returns 0 and changes nothing.
C10_RemoveAllScopes ==
    [][Called("remove") =>
          /\ keywords' = SelectSeq(keywords, LAMBDA r :
                             Lower(r.keyword) # Lower(ret'.keyword))
          /\ ret'.count = Len(keywords) - Len(keywords')
          /\ ret'.count = Cardinality({i \in 1..Len(keywords) :
                              Lower(keywords[i].keyword) = Lower(ret'.keyword)})
          /\ (ret.op = "remove" /\ Lower(ret.keyword) = Lower(ret'.keyword)) =>
                /\ ret'.count = 0
                /\ keywords' = keywords]_vars

\* C10 witness: a remove deleted two rules of one keyword (two scopes) and
\* left a third rule in place
C10_RemovedTwoScopes ==
    /\ ret.op = "remove" /\ ret.count = 2
    /\ Len(keywords) = 1

\* a regex rule whose pattern the engine does not accept
InvalidRule(r) ==
    r.match_mode = "regex" /\ (~ValidRegex(r.keyword) \/ RegexOverflows(r.keyword))

\* the rules of a snapshot, other than the invalid ones, that apply to a post
EligibleValid(rules, p) ==
    {i \in 1..Len(rules) :
        /\ ~InvalidRule(rules[i])
        /\ rules[i].category \in {NULL, PostCategory(p)}
        /\ Contains(Lower(PostTitle(p)), Lower(rules[i].keyword))}

\* C11 as claimed: a cycle whose snapshot holds an invalid regex rule is never
\* aborted by it; the invalid rule matches no title, and every new post is
\* queued with exactly the keywords of the other rules that apply to it, and
\* is delivered (individually or in the summary) before the cycle returns.
C11_InvalidRegexHarmless ==
    (\E i \in 1..Len(cyc.rules) : InvalidRule(cyc.rules[i])) =>
        /\ cyc.kind # "aborted"
        /\ cyc.kind \in {"nomatch", "active"} =>
              \A p \in cyc.fetched \ cyc.start_seen :
                  LET E == EligibleValid(cyc.rules, p)
                      Q == {q \in 1..Len(cyc.queue) : cyc.queue[q].post_id = p}
                  IN  /\ Cardinality(Q) = IF E = {} THEN 0 ELSE 1
                      /\ \A q \in Q :
                            /\ Len(cyc.queue[q].matched) = Cardinality(E)
                            /\ \A i \in E :
                                  cyc.queue[q].matched[RankIn(E, i)] =
                                      cyc.rules[i].keyword
        /\ (CycleOver /\ cyc.kind = "active") =>
              QueuePosts(cyc.queue) =
                  PostsSent(cyc, "post") \cup PostsSent(cyc, "summary")

\* C12: a command of a user other than ALLOWED_USER_ID, whichever of the
\* nine handlers it reaches and whenever it arrives (also while a poll cycle is
\* suspended), changes neither the rule store, nor the seen ledger, nor the
\* audit log, nor the settings, and no reply is sent.
C12_StrangerIgnored ==
    [][(ret' # ret /\ ret'.user # ALLOWED_USER_ID) =>
          /\ UNCHANGED <<keywords, seen_posts, notifications, settings>>
          /\ UNCHANGED <<rss_fail_count, pc, kws, to_send, overflow>>
          /\ ret'.reply = "none"
          /\ ret'.count = 0 /\ ~ret'.added]_vars

\* C12 witness: a stranger's /remove of a stored keyword was ignored while
\* the ledger, the audit log and the settings were not empty
C12_StrangerRemove ==
    /\ ret.op = "remove" /\ ret.user # ALLOWED_USER_ID
    /\ RowsOf(<<"D", "M">>) # {}
    /\ seen_posts # {} /\ notifications # <<>>
    /\ "initialized" \in DOMAIN settings

\* the flag reads "true"
Initialized ==
    "initialized" \in DOMAIN settings /\ settings["initialized"] = "true"

\* C13: the flag is not "true" before a cycle with an enabled rule and a
\* successful non-empty fetch has run; such a cycle, when it starts with the
\* flag not "true", ends with the flag "true"; once "true" the flag stays so
\* in every step of the poll job and of the command handlers.
C13_InitializedMonotonic ==
    /\ [](cyc.kind = "none" => ~Initialized)
    /\ [](Initialized => (cyc.start_init \/ cyc.kind = "seed"))
    /\ []((cyc.done /\ cyc.kind \in {"seed", "nomatch", "active"}) => Initialized)
    /\ []((CycleOver /\ cyc.kind # "failed" /\ cyc.fetched # {}) => Initialized)
    /\ [][Initialized => Initialized']_vars
    /\ [][(~Initialized /\ Initialized') =>
              /\ pc = "fetch"
              /\ cyc'.kind = "seed"
              /\ cyc'.rules # <<>>
              /\ cyc'.fetched # {}]_vars

\* C13 witness: after seeding, the operator removed the only rule, a cycle
\* found no enabled rule, and the flag is still "true"
C13_StillTrueAfterRemove ==
    /\ Initialized
    /\ keywords = <<>>
    /\ cyc.kind = "noop"
    /\ cyc.start_init

\* C14: a poll_rss call that finds no enabled rule returns at once: no feed
\* request, no message, and the seen ledger, the audit log, the settings and
\* the failure counter are as before.
C14_NoRuleNoOp ==
    [][(pc = "idle" /\ cyc' # cyc
           /\ \A i \in 1..Len(keywords) : ~keywords[i].enabled) =>
          /\ pc' = "idle"
          /\ UNCHANGED <<keywords, seen_posts, notifications, settings,
                         rss_fail_count>>
          /\ cyc'.kind = "noop" /\ cyc'.done
          /\ cyc'.requests = <<>>
          /\ cyc'.sends = <<>>
          /\ cyc'.rows = <<>>]_vars

\* C14 witness: a cycle was a no-op because the only rule is paused, with a
\* failure counted, posts in the ledger and rows in the audit log
C14_AllPaused ==
    /\ cyc.kind = "noop"
    /\ keywords # <<>>
    /\ rss_fail_count > 0
    /\ seen_posts # {} /\ notifications # <<>>
    /\ Initialized

\* C15: a cycle in which a feed request failed, the first or a later one,
\* has written nothing to the seen ledger, the audit log and the settings,
\* has sent no post notification and no summary, and keeps none of the
\* entries it had fetched.
C15_FailedFetchAborts ==
    cyc.kind = "failed" =>
        /\ SeenIds(seen_posts) = cyc.start_seen
        /\ notifications = cyc.start_log
        /\ Initialized <=> cyc.start_init
        /\ ~cyc.pruned
        /\ SendsOf(cyc, "post") = {} /\ SendsOf(cyc, "summary") = {}
        /\ cyc.queue = <<>> /\ cyc.rows = <<>>
        /\ entries = {} /\ to_send = <<>> /\ overflow = <<>>
        /\ pc \in {"idle", "alert"}

\* C15 witness: in the ACTIVE state the first category request succeeded and
\* returned a new post that a rule matches, the second request failed
C15_SecondFetchFailed ==
    /\ CycleOver /\ cyc.kind = "failed"
    /\ cyc.start_init
    /\ Len(cyc.requests) = 2
    /\ \E p \in feed \ cyc.start_seen :
          /\ PostCategory(p) = cyc.requests[1]
          /\ Eligible(cyc.rules, p) # {}

\* C16: when a cycle with an enabled rule has returned, the failure counter
\* is 0 if no feed request of the cycle failed (the merged entries may be
\* empty) and one more than when the cycle started otherwise; at all times
\* the counter is the number of failing cycles since the last cycle whose
\* requests all succeeded, or since the process started.
C16_ConsecutiveFailures ==
    /\ CycleOver =>
          rss_fail_count = IF cyc.kind = "failed" THEN cyc.start_fail + 1 ELSE 0
    /\ rss_fail_count = health.failures

\* C16 witness: after two failing cycles a cycle fetched an empty feed and
\* the counter is back at 0
C16_ResetByEmptyFeed ==
    /\ CycleOver /\ cyc.kind = "empty"
    /\ cyc.start_fail >= 2
    /\ rss_fail_count = 0

\* the scopes (categories, or NULL for none) of the stored rules that are
\* enabled
EnabledScopes ==
    {keywords[i].category : i \in {j \in 1..Len(keywords) : keywords[j].enabled}}

\* the feed requests a cycle has to make
RequiredRequests ==
    IF NULL \in EnabledScopes THEN {NULL} ELSE EnabledScopes

\* the feed requests a cycle has made
Requested(c) == {c.requests[i] : i \in 1..Len(c.requests)}

\* C17 as claimed: every cycle with an enabled rule issues exactly one
\* request for the unscoped feed and no other if an enabled rule has category
\* none, and otherwise exactly one request per distinct category of the
\* enabled rules and no other.
C17_ExactScope ==
    CycleOver =>
        /\ Requested(cyc) = RequiredRequests
        /\ Len(cyc.requests) = Cardinality(RequiredRequests)

\* C17 amended: a cycle never requests a feed twice and never requests a
\* feed outside its scope (the unscoped feed alone if an enabled rule has
\* category none, else the categories of the enabled rules; categories of
\* paused rules are not in it); a cycle in which no request failed has
\* requested every feed of its scope; a failed request is the cycle's last.
C17_ScopeUnlessFailed ==
    cyc.kind \notin {"none", "noop"} =>
        /\ Requested(cyc) \subseteq RequiredRequests
        /\ Len(cyc.requests) = Cardinality(Requested(cyc))
        /\ cyc.kind \notin {"fetching", "failed"} =>
              Requested(cyc) = RequiredRequests
        /\ cyc.kind = "fetching" =>
              Requested(cyc) \cup to_fetch = RequiredRequests
        /\ cyc.kind = "failed" => cyc.requests # <<>> /\ to_fetch = {}

\* C17 witness: with a paused unscoped rule and a paused daily rule beside
\* an enabled trade rule, a cycle made one request, for trade, and got the
\* trade post but not the daily posts the forum serves
C17_PausedScopesSkipped ==
    /\ CycleOver /\ cyc.kind = "seed"
    /\ {NULL, "daily", "trade"} = {keywords[i].category : i \in 1..Len(keywords)}
    /\ cyc.requests = <<"trade">>
    /\ cyc.fetched = {101}
    /\ {100, 102} \subseteq feed

\* C18: whenever a message about a post is sent, individually or in the
\* summary, the post is in the seen ledger, and so is every post waiting in
\* the queue; and the cycle that follows a cycle cut short (at a suspension
\* point, or inside the loop that marks and matches) neither queues, nor
\* sends a message about, nor logs any post the cut-short cycle had marked.
C18_MarkedBeforeDelivery ==
    /\ PostsSent(cyc, "post") \cup PostsSent(cyc, "summary")
           \subseteq SeenIds(seen_posts)
    /\ QueuePosts(to_send) \cup QueuePosts(overflow) \subseteq SeenIds(seen_posts)
    /\ cyc.prev.kind = "crashed" =>
          \A p \in cyc.prev.marked :
              /\ p \notin QueuePosts(cyc.queue)
              /\ p \notin PostsSent(cyc, "post") \cup PostsSent(cyc, "summary")
              /\ p \notin PostsLogged(cyc)

\* C18 witness: a cycle was cut short after it had marked a post that a rule
\* matches; the next cycle fetched that post again together with a newer
\* one, and delivered only the newer one
C18_NoRedelivery ==
    /\ CycleOver /\ cyc.kind = "active"
    /\ cyc.prev.kind = "crashed"
    /\ \E p \in cyc.prev.marked \cap cyc.fetched : Eligible(cyc.rules, p) # {}
    /\ PostsSent(cyc, "post") \cup PostsSent(cyc, "summary") # {}

\* the audit rows the cycle wrote for a post
RowsOfPost(c, p) == {j \in 1..Len(c.rows) : c.rows[j].post_id = p}

\* C19: in a cycle that delivers, the posts go out individually in strictly
\* ascending post_id order (the attempts for one post are consecutive); when
\* the delivery of a post starts, the audit rows of all posts before it are
\* written and none of its own or of later posts; the posts delivered
\* individually are the min(N, M) posts of the queue with the smallest ids;
\* the summary is sent after every individual attempt, and the overflow
\* posts are listed and logged in ascending post_id order.
C19_AscendingDelivery ==
    /\ \A i, j \in 1..Len(cyc.queue) :
          i < j => cyc.queue[i].post_id < cyc.queue[j].post_id
    /\ \A i, j \in 1..Len(cyc.results) :
          i < j => cyc.results[i].post_id < cyc.results[j].post_id
    /\ \A i, j \in SendsOf(cyc, "post") :
          i < j => \A p \in cyc.sends[i].ids, q \in cyc.sends[j].ids : p <= q
    /\ \A i \in SendsOf(cyc, "summary"), j \in SendsOf(cyc, "post") : j < i
    /\ \A i \in SendsOf(cyc, "summary") :
          \A p \in PostsSent(cyc, "post"), q \in cyc.sends[i].ids : p < q
    /\ \A i, j \in 1..Len(cyc.rows) :
          i < j => cyc.rows[i].post_id <= cyc.rows[j].post_id
    /\ \A i, j \in 1..Len(overflow) :
          i < j => overflow[i].post_id < overflow[j].post_id
    /\ pc = "send" =>
          \A j \in 1..Len(to_send) :
              LET p == to_send[j].post_id
              IN  /\ j < idx =>
                        Cardinality(RowsOfPost(cyc, p)) = Len(to_send[j].matched)
                  /\ j >= idx => RowsOfPost(cyc, p) = {}
                  /\ j > idx => AttemptsFor(cyc, p) = {}
    /\ (CycleOver /\ cyc.kind = "active") =>
          /\ Cardinality(PostsSent(cyc, "post")) = Min(cap, Len(cyc.queue))
          /\ \A p \in PostsSent(cyc, "post") :
                \A q \in QueuePosts(cyc.queue) \ PostsSent(cyc, "post") : p < q

\* C19 witness: cap 1 and three matching posts fetched in one cycle: 101 was
\* delivered individually (at the second attempt), then the summary listed
\* 103 and 104, and the rows were written in that order
C19_OneThenSummaryOfTwo ==
    /\ CycleOver /\ cyc.kind = "active"
    /\ cap = 1
    /\ [i \in 1..Len(cyc.sends) |-> cyc.sends[i].ids] =
           << {101}, {101}, {103, 104} >>
    /\ [i \in 1..Len(cyc.rows) |-> cyc.rows[i].post_id] = << 101, 103, 104 >>

\* the rows the cycle wrote for a post, in the order written
RowSeqOfPost(c, p) == SelectSeq(c.rows, LAMBDA r : r.post_id = p)

\* the rows of every overflow post of the cycle are written: one per entry
\* of its matched list, in that order, with status sent
OverflowLogged ==
    \A q \in (cap + 1)..Len(cyc.queue) :
        LET item == cyc.queue[q]
            rows == RowSeqOfPost(cyc, item.post_id)
        IN  /\ Len(rows) = Len(item.matched)
            /\ \A k \in 1..Len(rows) :
                  /\ rows[k].keyword = item.matched[k]
                  /\ rows[k].status = "sent"

C21_AlertBestEffort ==
    /\ Cardinality(SendsOf(cyc, "alert")) <= 1
    /\ pc = "alert" =>
          /\ SendsOf(cyc, "alert") = {}
          /\ rss_fail_count = RSS_FAIL_ALERT_THRESHOLD
    /\ (\E i \in SendsOf(cyc, "alert") : ~cyc.sends[i].ok) =>
          /\ cyc.done /\ cyc.kind = "failed" /\ pc = "idle"
          /\ rss_fail_count = cyc.start_fail + 1
          /\ rss_fail_count = RSS_FAIL_ALERT_THRESHOLD
          /\ notifications = cyc.start_log
          /\ SeenIds(seen_posts) = cyc.start_seen
    /\ health.alert_failed =>
          /\ rss_fail_count >= RSS_FAIL_ALERT_THRESHOLD
          /\ health.streak_alerts = 1
          /\ rss_fail_count > RSS_FAIL_ALERT_THRESHOLD =>
                SendsOf(cyc, "alert") = {}

\* C21 witness: the alert's send failed, and the next cycle failed to fetch
\* too: the counter is one beyond the threshold and the cycle sent nothing
C21_NoSecondAttempt ==
    /\ CycleOver /\ cyc.kind = "failed"
    /\ health.alert_failed
    /\ rss_fail_count = RSS_FAIL_ALERT_THRESHOLD + 1
    /\ cyc.sends = <<>>

\* the sequence a is the beginning of the sequence b
IsPrefix(a, b) == Len(a) <= Len(b) /\ SubSeq(b, 1, Len(a)) = a

\* C22: a cycle prunes exactly when it was ACTIVE, fetched successfully,
\* queued at least one post and finished its deliveries; then the seen marks
\* older than 7 days and the audit rows older than 30 days are gone and the
\* younger ones are kept.  Every other cycle (no enabled rule, failed fetch,
\* empty feed, seeding, no match) keeps every seen mark and every audit row
\* that was there when it started.
C22_PruneOnlyAfterDelivery ==
    /\ cyc.pruned <=> (cyc.done /\ cyc.kind = "active")
    /\ (cyc.done /\ cyc.kind = "active") =>
          /\ cyc.start_init /\ cyc.fetched # {} /\ cyc.queue # <<>>
          /\ QueuePosts(cyc.queue) =
                 PostsSent(cyc, "post") \cup PostsSent(cyc, "summary")
    /\ ~cyc.pruned =>
          /\ cyc.start_ledger \subseteq seen_posts
          /\ IsPrefix(cyc.start_log, notifications)
    /\ cyc.pruned =>
          LET at == cyc.rows[Len(cyc.rows)].sent_at
          IN  /\ \A r \in seen_posts : r.seen_at >= at - KEEP_DAYS_SEEN
              /\ \A r \in cyc.start_ledger :
                    r.seen_at >= at - KEEP_DAYS_SEEN => r \in seen_posts
              /\ notifications =
                    SelectSeq(cyc.start_log,
                              LAMBDA r : r.sent_at >= at - KEEP_DAYS_NOTIFICATIONS)
                    \o cyc.rows

\* C22 witness: a delivering cycle pruned both an audit row and a seen mark
\* that were there when it started
C22_PrunedBothStores ==
    /\ CycleOver /\ cyc.pruned
    /\ ~IsPrefix(cyc.start_log, notifications)
    /\ ~(cyc.start_ledger \subseteq seen_posts)


\* the rules of a rule store that are enabled, in creation order
SnapshotOf(store) == SelectSeq(store, LAMBDA r : r.enabled)

\* the feed requests a set of rules calls for
ScopeOf(rules) ==
    LET S == {rules[i].category : i \in 1..Len(rules)}
    IN  IF NULL \in S THEN {NULL} ELSE S

\* C23: whatever the operator does to the rule store while a cycle runs,
\* the cycle works with the rules that were enabled when it started: its
\* snapshot is those rules, it requests no feed outside their scope and,
\* once fetching is over without failure, every feed of their scope; a post
\* is queued exactly when one of those rules applies to it, with exactly
\* their keyword texts; every audit row and every message of the cycle
\* stems from that queue.
C23_CycleUsesStartRules ==
    (cyc.kind \notin {"none", "noop"}) =>
        LET rules == SnapshotOf(cyc.start_store)
        IN  /\ cyc.rules = rules
            /\ ~cyc.done /\ pc # "alert" => kws = rules
            /\ Requested(cyc) \subseteq ScopeOf(rules)
            /\ cyc.kind \notin {"fetching", "failed", "crashed"} =>
                  Requested(cyc) = ScopeOf(rules)
            /\ cyc.kind \in {"nomatch", "active"} =>
                  \A p \in cyc.fetched \ cyc.start_seen :
                     LET E == Eligible(rules, p)
                         Q == {q \in 1..Len(cyc.queue) :
                                  cyc.queue[q].post_id = p}
                     IN  /\ Cardinality(Q) = IF E = {} THEN 0 ELSE 1
                         /\ \A q \in Q :
                               /\ Len(cyc.queue[q].matched) = Cardinality(E)
                               /\ \A i \in E :
                                     cyc.queue[q].matched[RankIn(E, i)] =
                                         rules[i].keyword
            /\ \A j \in 1..Len(cyc.rows) :
                  \E q \in 1..Len(cyc.queue) :
                     /\ cyc.queue[q].post_id = cyc.rows[j].post_id
                     /\ cyc.rows[j].keyword \in Texts(cyc.queue[q].matched)
            /\ PostsSent(cyc, "post") \cup PostsSent(cyc, "summary")
                   \subseteq QueuePosts(cyc.queue)

\* C23 witness: the rule vp for trade was enabled when the cycle started
\* and was gone from the rule store when the matching loop ran (removed
\* while a feed request was pending); post 101 "DMvp" (trade) was still
\* fetched, matched and logged under vp
C23_RemovedRuleStillMatched ==
    /\ CycleOver /\ cyc.kind = "active"
    /\ \E i \in 1..Len(cyc.start_store) :
          /\ cyc.start_store[i].keyword = <<"v", "p">>
          /\ cyc.start_store[i].enabled
    /\ \A i \in 1..Len(cyc.match_store) :
          Lower(cyc.match_store[i].keyword) # <<"v", "p">>
    /\ cyc.requests \in {<<"daily", "trade">>, <<"trade", "daily">>}
    /\ cyc.queue = << [post_id |-> 101, matched |-> << <<"v", "p">> >>] >>
    /\ \E j \in 1..Len(cyc.rows) :
          cyc.rows[j].post_id = 101 /\ cyc.rows[j].keyword = <<"v", "p">>


\* the step is a call set_keyword_enabled(k, b) that does what C24 says of
\* it: every rule whose keyword is k in any case, whatever its category,
\* has its flag set to b; no other flag, no keyword, category or match mode
\* and no position changes; the count returned is the number of those rules
SetEnabledEffect ==
    LET k == Lower(ret'.keyword)
        b == ret'.op = "resume"
        T == {i \in 1..Len(keywords) : Lower(keywords[i].keyword) = k}
    IN  /\ Len(keywords') = Len(keywords)
        /\ \A i \in 1..Len(keywords) :
              /\ keywords'[i].keyword = keywords[i].keyword
              /\ keywords'[i].category = keywords[i].category
              /\ keywords'[i].match_mode = keywords[i].match_mode
              /\ keywords'[i].enabled =
                     IF i \in T THEN b ELSE keywords[i].enabled
        /\ ret'.count = Cardinality(T)

\* the categories that, in a rule store, only rules of keyword k refer to
OnlyOf(store, k) ==
    {c \in CATEGORIES :
        /\ \E i \in 1..Len(store) :
              store[i].category = c /\ Lower(store[i].keyword) = k
        /\ \A i \in 1..Len(store) :
              store[i].category = c => Lower(store[i].keyword) = k}

\* the cycle has no queue entry and no audit row naming keyword k and has
\* requested none of the feeds in `cats`
Silent(c, k, cats) ==
    /\ \A q \in 1..Len(c.queue) :
          \A t \in Texts(c.queue[q].matched) : Lower(t) # k
    /\ \A j \in 1..Len(c.rows) : Lower(c.rows[j].keyword) # k
    /\ Requested(c) \cap cats = {}

\* the keywords (lower case) of a rule store all of whose rules are disabled
AllDisabled(store) ==
    {Lower(store[i].keyword) : i \in 1..Len(store)} \
        {Lower(store[i].keyword) : i \in {j \in 1..Len(store) : store[j].enabled}}

\* C24 as claimed: set_keyword_enabled has the effect described, and every
\* cycle that starts after a pause of k (one that found rules of k) and
\* before a resume of k names k in no notification and no audit row and
\* requests no category that only rules of k refer to.
C24_PausedUntilResumed ==
    /\ [][(Called("pause") \/ Called("resume")) => SetEnabledEffect]_vars
    /\ [](\A k \in cyc.start_paused :
             Silent(cyc, k, OnlyOf(cyc.start_store, k)))

\* C24 amended: set_keyword_enabled has the effect described; after a pause
\* of k every stored rule of k is disabled until a resume of k or an add of
\* a rule with keyword k; every cycle at whose start every stored rule of k
\* is disabled names k in no notification and no audit row and requests no
\* category that only rules of k refer to.
C24_DisabledRulesSilent ==
    /\ [][(Called("pause") \/ Called("resume")) => SetEnabledEffect]_vars
    /\ [][~(Called("add") \/ Called("resume")) =>
            \A k \in ret.paused \cap AllDisabled(keywords) :
               \A i \in 1..Len(keywords') :
                  Lower(keywords'[i].keyword) = k => ~keywords'[i].enabled]_vars
    /\ [](\A k \in AllDisabled(cyc.start_store) :
             Silent(cyc, k, OnlyOf(cyc.start_store, k)))

\* C24 witness: "VP" was paused, which disabled the two rules vp (trade) and
\* VP (daily) and left the rule dm (daily) enabled; the cycle that started
\* then requested the daily feed only, and post 101 "DMvp" (trade), which
\* the forum serves, was not fetched
C24_PausedTradeNotFetched ==
    /\ CycleOver /\ cyc.kind = "nomatch"
    /\ ret.op = "pause" /\ ret.keyword = <<"V", "P">> /\ ret.count = 2
    /\ cyc.start_paused = { <<"v", "p">> }
    /\ cyc.start_store = << Rule(<<"v", "p">>, "trade", "substring", FALSE),
                            Rule(<<"V", "P">>, "daily", "substring", FALSE),
                            Rule(<<"d", "m">>, "daily", "substring", TRUE) >>
    /\ cyc.requests = <<"daily">>
    /\ 101 \in feed \ cyc.fetched


\* the summaries of a cycle that list post p
SummariesOf(c, p) == {i \in SendsOf(c, "summary") : p \in c.sends[i].ids}

\* C25: in an active cycle that has run to its end, every post that was
\* unseen at the start and that an enabled rule applies to went down
\* exactly one of the two paths: either _send_with_retry was called for it
\* once (one to three attempts, consecutive, stopping at the first success)
\* and no summary lists it, or the cycle's only summary lists it and no
\* individual message was attempted for it; and the cycle wrote at least one
\* audit row for it.
C25_CoveredExactlyOnce ==
    (CycleOver /\ cyc.kind = "active") =>
        /\ Cardinality(SendsOf(cyc, "summary")) <= 1
        /\ \A p \in cyc.fetched \ cyc.start_seen :
              Eligible(cyc.rules, p) # {} =>
                 LET A == AttemptsFor(cyc, p)
                     S == SummariesOf(cyc, p)
                     R == {i \in 1..Len(cyc.results) :
                              cyc.results[i].post_id = p}
                 IN  /\ (A = {}) # (S = {})
                     /\ Cardinality(A) <= max_retries
                     /\ Cardinality(S) <= 1
                     /\ Cardinality(R) = IF A = {} THEN 0 ELSE 1
                     /\ \A i, j \in A :
                           /\ \A m \in i..j : m \in A
                           /\ (i < j) => ~cyc.sends[i].ok
                     /\ \A i \in A :
                           (~cyc.sends[i].ok /\ i + 1 \notin A) =>
                              Cardinality(A) = max_retries
                     /\ RowsOfPost(cyc, p) # {}
                     /\ \A j \in RowsOfPost(cyc, p) :
                           \E m \in (Len(cyc.start_log) + 1)..Len(notifications) :
                              notifications[m] = cyc.rows[j]

\* C25 witness: rule DM for any category, cap 1, posts 101 "DMvp", 102 "un"
\* and 103 "xdm" new: 101 was delivered at the third attempt, 103 is in the
\* summary, 102 got nothing; rows for 101 and 103
C25_OneRetriedOneSummarised ==
    /\ CycleOver /\ cyc.kind = "active"
    /\ cap = 1
    /\ cyc.fetched \ cyc.start_seen = {101, 102, 103}
    /\ QueuePosts(cyc.queue) = {101, 103}
    /\ cyc.sends = << [kind |-> "post", ids |-> {101}, ok |-> FALSE],
                      [kind |-> "post", ids |-> {101}, ok |-> FALSE],
                      [kind |-> "post", ids |-> {101}, ok |-> TRUE],
                      [kind |-> "summary", ids |-> {103}, ok |-> TRUE] >>
    /\ PostsLogged(cyc) = {101, 103}


\* C26: the flag becomes "true" only in a seeding cycle whose fetched posts
\* are all in the ledger in that same state, and while that cycle is the
\* last one they all are; a post leaves the ledger only when housekeeping
\* finds it older than the retention window; a cycle that starts with the
\* flag not "true" and is cut short, also between the two writes, leaves the
\* flag not "true"; the next cycle that finishes after a successful non-empty
\* fetch then seeds again: it marks what it fetched, sets the flag, sends no
\* message and writes no audit row.
C26_MarkedBeforeFlag ==
    /\ [][(~Initialized /\ Initialized') =>
              /\ cyc'.kind = "seed"
              /\ cyc'.fetched # {}
              /\ cyc'.fetched \subseteq SeenIds(seen_posts')]_vars
    /\ []((cyc.kind = "seed") =>
              Initialized /\ cyc.fetched \subseteq SeenIds(seen_posts))
    /\ [][\A r \in seen_posts \ seen_posts' :
              /\ r.seen_at < now - KEEP_DAYS_SEEN
              /\ cyc'.pruned]_vars
    /\ []((cyc.kind = "crashed" /\ ~cyc.start_init) => ~Initialized)
    /\ []((/\ CycleOver
           /\ ~cyc.start_init
           /\ cyc.kind \notin {"crashed", "failed", "empty"}) =>
              /\ cyc.kind = "seed"
              /\ Initialized
              /\ cyc.fetched \subseteq SeenIds(seen_posts)
              /\ cyc.sends = <<>> /\ cyc.rows = <<>>
              /\ notifications = cyc.start_log)

\* C26 witness: a seeding cycle was cut short after it had marked the one
\* post it fetched, the flag stayed unset; the next cycle fetched that post
\* and a new one that matches the rule, seeded both, set the flag and sent
\* nothing
C26_SeededAgainAfterCrash ==
    /\ CycleOver /\ cyc.kind = "seed"
    /\ ~cyc.start_init /\ Initialized
    /\ cyc.prev.kind = "crashed"
    /\ cyc.prev.fetched = {100} /\ cyc.prev.marked = {100}
    /\ cyc.start_seen = {100}
    /\ cyc.fetched = {100, 101}
    /\ Eligible(cyc.rules, 101) # {}
    /\ SeenIds(seen_posts) = {100, 101}
    /\ cyc.sends = <<>> /\ notifications = <<>>

=============================================================================
